---- MODULE Spec2Model ----
(***************************************************************************)
(* Model of winsign/sign.py: the re-signing pipeline winsign(), its        *)
(* helpers get_dummy_signature(), pem_to_der(), tmpdir(),                  *)
(* write_signature(), and the external osslsigncode utility it drives.     *)
(*                                                                         *)
(* Bytes are integers 0..255 and byte strings are sequences of them.       *)
(* The filesystem is a function from paths to file contents.               *)
(***************************************************************************)
EXTENDS Integers, Sequences, FiniteSets, TLC

(***************************************************************************)
(* Bounds of the model.                                                    *)
(***************************************************************************)
\* longest signature value (in bytes) the signer capability returns
MaxSigLen == 9
\* number of names mkdtemp / NamedTemporaryFile can draw from
MaxTmp == 2
\* longest byte string handed directly to write_signature (SpecWS)
MaxDirectLen == 17

(***************************************************************************)
(* Small helpers on sequences.                                             *)
(***************************************************************************)
Range(s) == {s[i] : i \in 1..Len(s)}

Zeros(n) == [i \in 1..n |-> 0]

Take(s, n) == SubSeq(s, 1, n)

Drop(s, n) == SubSeq(s, n + 1, Len(s))

RECURSIVE Concat(_)
Concat(ss) == IF ss = <<>> THEN <<>> ELSE Head(ss) \o Concat(Tail(ss))

(***************************************************************************)
(* File contents and paths.                                                *)
(***************************************************************************)
Absent == [kind |-> "absent"]

Dir == [kind |-> "dir"]

Partial == [kind |-> "partial"]

Bin(bytes) == [kind |-> "bytes", data |-> bytes]

\* an executable/installer: its format, its signable content, and the bytes
\* of its embedded signature region (empty when unsigned)
Exe(pe, body, sig) == [kind |-> "exe", pe |-> pe, body |-> body, sig |-> sig]

Path(k, n, f) == [k |-> k, n |-> n, f |-> f]

InPath(p) == Path("in", p, "")

OutPath(p) == Path("out", p, "")

CrossPath(p) == Path("crosscert", p, "")

TmpNames == 1..MaxTmp

TmpDir(n) == Path("tmpdir", n, "")

TmpFile(n) == Path("tmpfile", n, "")

(***************************************************************************)
(* Text of a PEM file: a sequence of characters.  0..63 are the base64     *)
(* alphabet, PadChar is "=", NL is the newline and Dash is "-".            *)
(***************************************************************************)
PadChar == 64

NL == 65

Dash == 66

\* line width of the utility's PEM output (scaled down from OpenSSL's 64)
PemLineWidth == 8

DashLine == <<Dash, Dash, Dash, Dash, Dash, 1, 4, 6, Dash, Dash, Dash, Dash, Dash>>

\* bytes.split(b"\n")
RECURSIVE SplitNL(_, _)
SplitNL(text, cur) ==
    IF text = <<>> THEN <<cur>>
    ELSE IF Head(text) = NL THEN <<cur>> \o SplitNL(Tail(text), <<>>)
    ELSE SplitNL(Tail(text), Append(cur, Head(text)))

\* line.startswith(b"----")
StartsWithDashes(line) == Len(line) >= 4 /\ Take(line, 4) = <<Dash, Dash, Dash, Dash>>

B64Error == [ok |-> FALSE, data |-> <<>>]

\* one group of four base64 characters
DecodeQuad(q) ==
    LET a == q[1]
        b == q[2]
        c == q[3]
        d == q[4]
    IN  IF c = PadChar
        THEN <<a * 4 + b \div 16>>
        ELSE IF d = PadChar
        THEN <<a * 4 + b \div 16, (b % 16) * 16 + c \div 4>>
        ELSE <<a * 4 + b \div 16, (b % 16) * 16 + c \div 4, (c % 4) * 64 + d>>

RECURSIVE DecodeQuads(_)
DecodeQuads(s) ==
    IF s = <<>> THEN <<>> ELSE DecodeQuad(Take(s, 4)) \o DecodeQuads(Drop(s, 4))

\* base64.b64decode(b64): characters outside the alphabet are discarded, and a
\* length that is not a whole number of groups is binascii.Error
B64Decode(s) ==
    LET chars == SelectSeq(s, LAMBDA x : x <= PadChar)
    IN  IF Len(chars) % 4 # 0 THEN B64Error
        ELSE [ok |-> TRUE, data |-> DecodeQuads(chars)]

pem_to_der(pem) ==
    LET lines == SelectSeq(SplitNL(pem, <<>>), LAMBDA line : ~StartsWithDashes(line))
        b64 == Concat(lines)
    IN  B64Decode(b64)

(***************************************************************************)
(* The utility's side of the PEM encoding (extract-signature ... -pem).    *)
(***************************************************************************)
EncodeGroup(g) ==
    IF Len(g) = 3
    THEN <<g[1] \div 4, (g[1] % 4) * 16 + g[2] \div 16, (g[2] % 16) * 4 + g[3] \div 64, g[3] % 64>>
    ELSE IF Len(g) = 2
    THEN <<g[1] \div 4, (g[1] % 4) * 16 + g[2] \div 16, (g[2] % 16) * 4, PadChar>>
    ELSE <<g[1] \div 4, (g[1] % 4) * 16, PadChar, PadChar>>

RECURSIVE B64Encode(_)
B64Encode(bytes) ==
    IF bytes = <<>> THEN <<>>
    ELSE IF Len(bytes) <= 3 THEN EncodeGroup(bytes)
    ELSE EncodeGroup(Take(bytes, 3)) \o B64Encode(Drop(bytes, 3))

RECURSIVE WrapLines(_)
WrapLines(chars) ==
    IF chars = <<>> THEN <<>>
    ELSE IF Len(chars) <= PemLineWidth THEN chars \o <<NL>>
    ELSE Take(chars, PemLineWidth) \o <<NL>> \o WrapLines(Drop(chars, PemLineWidth))

ToolPem(der) == DashLine \o <<NL>> \o WrapLines(B64Encode(der)) \o DashLine \o <<NL>>

(***************************************************************************)
(* Signature codec (winsign.asn1): a SignedData value is a record          *)
(* [algo, digest, certs, signature]; its encoding is a tagged,             *)
(* length-prefixed byte string.                                            *)
(***************************************************************************)
DigestAlgos == {"sha1", "sha256"}

SDTag == 48

AlgoCode(algo) == IF algo = "sha1" THEN 1 ELSE 2

CodeAlgo(code) == IF code = 1 THEN "sha1" ELSE "sha256"

SignedData(algo, digest, certs, signature) ==
    [algo |-> algo, digest |-> digest, certs |-> certs, signature |-> signature]

Encode(sd) ==
    <<SDTag, AlgoCode(sd.algo), sd.digest, Len(sd.certs)>> \o sd.certs
        \o <<Len(sd.signature)>> \o sd.signature

WellFormed(bytes) ==
    /\ Len(bytes) >= 5
    /\ bytes[1] = SDTag
    /\ bytes[2] \in {1, 2}
    /\ Len(bytes) >= 5 + bytes[4]
    /\ Len(bytes) >= 5 + bytes[4] + bytes[5 + bytes[4]]

\* get_signeddata(bytes): the SignedData of a well-formed encoding
get_signeddata(bytes) ==
    LET n == bytes[4]
        m == bytes[5 + n]
    IN  SignedData(CodeAlgo(bytes[2]), bytes[3], SubSeq(bytes, 5, 4 + n),
                   SubSeq(bytes, 6 + n, 5 + n + m))

\* the message-digest attribute of an encoded signature
MessageDigestOf(bytes) == get_signeddata(bytes).digest

\* resign(old_sig, certs, signer), given the value the signer returned: the
\* digest algorithm and message digest of the old signature are carried over
resign(old_sig, certs, signature) ==
    Encode(SignedData(old_sig.algo, old_sig.digest, certs, signature))

\* the failure sentinel of the signer capability, and its falsy results
SignerFalse == [falsy |-> TRUE, bytes |-> <<>>]

SignerBytes(n) == [falsy |-> n = 0, bytes |-> [i \in 1..n |-> 160 + i]]

(***************************************************************************)
(* Certificates.                                                           *)
(***************************************************************************)
LeafCert == 11

DummyCert == 12

CrossCert == 13

PemCert(id) == [kind |-> "pemcert", id |-> id]

\* the embedded DUMMY_KEY text
DUMMY_KEY == [kind |-> "text", id |-> DummyCert]

(***************************************************************************)
(* Certificate-table packager (lines 154-161 of write_signature).          *)
(***************************************************************************)
LE(n, width) == [i \in 1..width |-> (n \div (256 ^ (i - 1))) % 256]

FromLE(bytes) ==
    LET RECURSIVE Val(_)
        Val(i) == IF i > Len(bytes) THEN 0 ELSE bytes[i] + 256 * Val(i + 1)
    IN  Val(1)

REV2 == 512

PKCS7 == 2

\* certificate.build(...): an 8-byte header followed by the data
CertificateBuild(c) == LE(c.size, 4) \o LE(c.revision, 2) \o LE(c.certtype, 2) \o c.data

\* the fields of a built WIN_CERTIFICATE
CertSize(cert) == FromLE(Take(cert, 4))

CertData(cert) == Drop(cert, 8)

\* mutant: the padding is put in front of the signature
PackageSignature_PadFront(is_pe, sig) ==
    IF is_pe
    THEN LET padlen == (8 - (Len(sig) % 8)) % 8
             padded == Zeros(padlen) \o sig
         IN  CertificateBuild([size |-> Len(padded) + 8, revision |-> REV2,
                               certtype |-> PKCS7, data |-> padded])
    ELSE sig

\* mutant: padlen = 8 - len(sig) % 8, without the outer modulo
PackageSignature_NoOuterMod(is_pe, sig) ==
    IF is_pe
    THEN LET padlen == 8 - (Len(sig) % 8)
             padded == sig \o Zeros(padlen)
         IN  CertificateBuild([size |-> Len(padded) + 8, revision |-> REV2,
                               certtype |-> PKCS7, data |-> padded])
    ELSE sig

\* mutant: every signature is encapsulated, PE file or not
PackageSignature_AlwaysWrap(is_pe, sig) ==
    LET padlen == (8 - (Len(sig) % 8)) % 8
        padded == sig \o Zeros(padlen)
    IN  CertificateBuild([size |-> Len(padded) + 8, revision |-> REV2,
                          certtype |-> PKCS7, data |-> padded])

\* the bytes write_signature puts in the signature file
PackageSignature(is_pe, sig) ==
    IF is_pe
    THEN LET padlen == (8 - (Len(sig) % 8)) % 8
             padded == sig \o Zeros(padlen)
         IN  CertificateBuild([size |-> Len(padded) + 8, revision |-> REV2,
                               certtype |-> PKCS7, data |-> padded])
    ELSE sig

\* is_pefile(infile): a structural sniff of the file
is_pefile(content) == content.kind = "exe" /\ content.pe

(***************************************************************************)
(* The external utility, as a black box: what a successful operation       *)
(* writes to its -out path.                                                *)
(***************************************************************************)
\* the Authenticode digest of a file's signable content
FileDigest(body, algo) == (16 * body + AlgoCode(algo)) % 256

DummySigValue == <<7, 7, 7>>

\* the utility's own embedding of a signature: a certificate-table entry,
\* padded to 8 bytes, in a PE file, and the bare signature otherwise
ToolEmbed(pe, sig) ==
    IF pe
    THEN LET data == sig \o Zeros((8 - (Len(sig) % 8)) % 8)
         IN  LE(Len(data) + 8, 4) \o LE(REV2, 2) \o LE(PKCS7, 2) \o data
    ELSE sig

\* sign: the input with a signature by the given identity embedded
ToolSign(content, certId, algo, cross) ==
    LET certs == IF cross = <<>> THEN <<certId>> ELSE <<certId>> \o cross
        sd == SignedData(algo, FileDigest(content.body, algo), certs, DummySigValue)
    IN  Exe(content.pe, content.body, ToolEmbed(content.pe, Encode(sd)))

\* extract-signature -pem: the embedded signature, PEM-encoded
ToolExtract(content) ==
    LET raw == IF content.pe
               THEN Take(CertData(content.sig), CertSize(content.sig) - 8)
               ELSE content.sig
    IN  ToolPem(IF WellFormed(raw)
                THEN Take(raw, 5 + raw[4] + raw[5 + raw[4]])
                ELSE raw)

\* attach-signature: the input with the given signature bytes embedded
ToolAttach(content, sigin) == Exe(content.pe, content.body, sigin)

(***************************************************************************)
(* State.                                                                  *)
(***************************************************************************)
VARIABLES
    fs,         \* the filesystem: path -> contents
    fs0,        \* the filesystem as it was when the runs were started
    args,       \* per run: the arguments of winsign
    pc,         \* per run: the position in the code
    loc,        \* per run: the local variables
    result,     \* per run: "none", "True", "False" or "raised"
    calls,      \* per run: how often each external operation was invoked
    hist,       \* per run: the pipeline stages entered so far
    signerRet,  \* per run: what the signer capability returned last
    attachArg,  \* per run: the -sigin bytes of the attach-signature calls
    mainst      \* per run: the state of main around the call of winsign

vars == <<fs, fs0, args, pc, loc, result, calls, hist, signerRet, attachArg, mainst>>

\* number of winsign runs in the concurrent specification
MaxProcs == 2

\* signable contents of the input files are 1..MaxBody
MaxBody == 2

Procs == DOMAIN pc

None == Path("none", 0, "")

TmpChildren == {"cert.pem", "signed1", "signature", "unsigned", "signed"}

AllPaths ==
    {InPath(p) : p \in 1..MaxProcs} \cup {OutPath(p) : p \in 1..MaxProcs}
        \cup {CrossPath(p) : p \in 1..MaxProcs}
        \cup {TmpDir(n) : n \in TmpNames} \cup {TmpFile(n) : n \in TmpNames}
        \cup {Path("tmpdir", n, f) : n \in TmpNames, f \in TmpChildren}

\* d / name
Child(n, name) == Path("tmpdir", n, name)

Exists(path) == fs[path].kind # "absent"

NoSignedData == SignedData("sha1", 0, <<>>, <<>>)

NoLocals ==
    [d |-> 0, exc |-> "none", old_sig |-> <<>>, signeddata |-> NoSignedData,
     certs |-> <<>>, newsig |-> <<>>, sigfile |-> 0]

\* the "-" of main's infile and outfile arguments
Stdio == Path("-", 0, "")

\* main's state when winsign is not called from main
NoMain ==
    [argv |-> [infile |-> None, outfile |-> None, priv_key |-> FALSE, autograph |-> FALSE],
     cmdline |-> [infile |-> None, outfile |-> None, priv_key |-> FALSE, autograph |-> FALSE],
     outfile |-> None, d |-> 0, exc |-> "none", ret |-> "none", exit |-> "none",
     stdin |-> Absent, stdout |-> <<>>]

NoCalls == [sign |-> 0, extract |-> 0, attach |-> 0, signer |-> 0]

\* the arguments a run can be started with
ArgChoices(p) ==
    [infile : {InPath(p)}, outfile : {InPath(p), OutPath(p)}, digest_algo : DigestAlgos,
     cert : {LeafCert}, crosscert : {None, CrossPath(p)}, signer : {"capability"}]

\* a cross certificate file is PEM, or another encoding the utility reads too
CrossFiles == {PemCert(CrossCert), [kind |-> "dercert", id |-> CrossCert]}

InputFiles == {Exe(pe, body, <<>>) : pe \in BOOLEAN, body \in 1..MaxBody}

InitFor(procs) ==
    /\ args \in [procs -> UNION {ArgChoices(p) : p \in procs}]
    /\ \A p \in procs : args[p] \in ArgChoices(p)
    /\ \E inputs \in [procs -> InputFiles], cross \in [procs -> CrossFiles] :
         fs = [path \in AllPaths |->
                 IF \E p \in procs : path = InPath(p)
                 THEN inputs[path.n]
                 ELSE IF \E p \in procs : path = CrossPath(p) /\ args[p].crosscert # None
                 THEN cross[path.n]
                 ELSE Absent]
    /\ fs0 = fs
    /\ pc = [p \in procs |-> "start"]
    /\ loc = [p \in procs |-> NoLocals]
    /\ result = [p \in procs |-> "none"]
    /\ calls = [p \in procs |-> NoCalls]
    /\ hist = [p \in procs |-> <<"START">>]
    /\ signerRet = [p \in procs |-> "none"]
    /\ attachArg = [p \in procs |-> <<>>]
    /\ mainst = [p \in procs |-> NoMain]

Init == InitFor({1})

(***************************************************************************)
(* Steps shared by the actions.                                            *)
(***************************************************************************)
Goto(p, label) == pc' = [pc EXCEPT ![p] = label]

SetLoc(p, f) == loc' = [loc EXCEPT ![p] = f]

Enter(p, stage) == hist' = [hist EXCEPT ![p] = Append(@, stage)]

Invoked(p, op) == calls' = [calls EXCEPT ![p][op] = @ + 1]

\* raise exc at this point; control continues at label
Raise(p, exc, label) ==
    /\ SetLoc(p, [loc[p] EXCEPT !.exc = exc])
    /\ Goto(p, label)

\* "return False" of an except clause of winsign
ReturnFalse(p) ==
    /\ result' = [result EXCEPT ![p] = "False"]
    /\ Enter(p, "FAILED")
    /\ Goto(p, "done")

\* an exception no except clause of winsign matches leaves winsign
Propagate(p) ==
    /\ result' = [result EXCEPT ![p] = "raised"]
    /\ Enter(p, "FAILED")
    /\ Goto(p, "done")

\* the Python classes that are subclasses of OSError / of Exception
IsOSError(exc) == exc \in {"OSError"}

IsException(exc) ==
    exc \in {"OSError", "binascii.Error", "UnboundLocalError", "ValueError",
             "SigningFailed", "SignerError"}

(***************************************************************************)
(* get_dummy_signature (lines 131-149), run inside winsign's first try.    *)
(***************************************************************************)
\* mutant: a fixed directory name instead of mkdtemp's fresh one
TmpdirEnter_FixedName(p) ==
    /\ pc[p] = "start"
    /\ \/ /\ fs' = [fs EXCEPT ![TmpDir(1)] = Dir]
          /\ SetLoc(p, [loc[p] EXCEPT !.d = 1])
          /\ Goto(p, "write_cert")
       \/ /\ Raise(p, "OSError", "tmpdir_finally")
          /\ UNCHANGED fs
    /\ UNCHANGED <<fs0, args, result, calls, hist, signerRet, attachArg, mainst>>

\* tmpdir(), lines 80-82: mkdtemp makes a fresh directory, or raises OSError
\* and leaves d unbound
TmpdirEnter(p) ==
    /\ pc[p] = "start"
    /\ \/ \E n \in TmpNames :
            /\ ~Exists(TmpDir(n))
            /\ fs' = [fs EXCEPT ![TmpDir(n)] = Dir]
            /\ SetLoc(p, [loc[p] EXCEPT !.d = n])
            /\ Goto(p, "write_cert")
       \/ /\ Raise(p, "OSError", "tmpdir_finally")
          /\ UNCHANGED fs
    /\ UNCHANGED <<fs0, args, result, calls, hist, signerRet, attachArg, mainst>>

\* lines 133-134: cert_file.write_text(DUMMY_KEY)
WriteCert(p) ==
    /\ pc[p] = "write_cert"
    /\ \/ /\ fs' = [fs EXCEPT ![Child(loc[p].d, "cert.pem")] = DUMMY_KEY]
          /\ Goto(p, "sign_file")
          /\ UNCHANGED loc
       \/ /\ Raise(p, "OSError", "tmpdir_finally")
          /\ UNCHANGED fs
    /\ UNCHANGED <<fs0, args, result, calls, hist, signerRet, attachArg, mainst>>

\* the certificates the utility adds for -ac crosscert
CrossOf(p) == IF args[p].crosscert = None THEN <<>> ELSE <<fs[args[p].crosscert].id>>

\* mutant: the dummy signature is made in place, dest = infile
SignFile_InPlace(p) ==
    LET dest == args[p].infile
        cert_file == Child(loc[p].d, "cert.pem")
    IN  /\ pc[p] = "sign_file"
        /\ Invoked(p, "sign")
        /\ \/ /\ fs[args[p].infile].kind = "exe"
              /\ fs' = [fs EXCEPT ![dest] = ToolSign(fs[args[p].infile], fs[cert_file].id,
                                                     args[p].digest_algo, CrossOf(p))]
              /\ Enter(p, "DUMMY_SIGNED")
              /\ Goto(p, "extract")
              /\ UNCHANGED loc
           \/ /\ \E left \in {fs[dest], Partial} : fs' = [fs EXCEPT ![dest] = left]
              /\ Raise(p, "OSError", "tmpdir_finally")
              /\ UNCHANGED hist
        /\ UNCHANGED <<fs0, args, result, signerRet, attachArg, mainst>>

\* lines 135-146 with sign_file and osslsigncode: the utility signs infile
\* into dest = d / "signed1..." with the dummy identity; a non-zero exit
\* status is OSError, and leaves dest unwritten or partly written
SignFile(p) ==
    LET dest == Child(loc[p].d, "signed1")
        cert_file == Child(loc[p].d, "cert.pem")
    IN  /\ pc[p] = "sign_file"
        /\ Invoked(p, "sign")
        /\ \/ /\ fs[args[p].infile].kind = "exe"
              /\ fs' = [fs EXCEPT ![dest] = ToolSign(fs[args[p].infile], fs[cert_file].id,
                                                     args[p].digest_algo, CrossOf(p))]
              /\ Enter(p, "DUMMY_SIGNED")
              /\ Goto(p, "extract")
              /\ UNCHANGED loc
           \/ /\ \E left \in {fs[dest], Partial} : fs' = [fs EXCEPT ![dest] = left]
              /\ Raise(p, "OSError", "tmpdir_finally")
              /\ UNCHANGED hist
        /\ UNCHANGED <<fs0, args, result, signerRet, attachArg, mainst>>

\* what the utility can leave in the -out file of an extract-signature that
\* exits with status 0: the PEM of the embedded signature, a PEM cut short,
\* or the PEM of something that is no SignedData
ExtractOutputs(content) ==
    LET pem == ToolExtract(content)
    IN  {pem, Take(pem, Len(DashLine) + 3), ToolPem(<<0, 0, 0>>)}

PemText(text) == [kind |-> "pemtext", text |-> text]

\* lines 147-148 with extract_signature and osslsigncode
ExtractSignature(p) ==
    LET dest == Child(loc[p].d, "signed1")
        sig == Child(loc[p].d, "signature")
    IN  /\ pc[p] = "extract"
        /\ Invoked(p, "extract")
        /\ \/ /\ \E text \in ExtractOutputs(fs[dest]) :
                    fs' = [fs EXCEPT ![sig] = PemText(text)]
              /\ Enter(p, "EXTRACTED")
              /\ Goto(p, "transcode")
              /\ UNCHANGED loc
           \/ /\ \E left \in {fs[sig], Partial} : fs' = [fs EXCEPT ![sig] = left]
              /\ Raise(p, "OSError", "tmpdir_finally")
              /\ UNCHANGED hist
        /\ UNCHANGED <<fs0, args, result, signerRet, attachArg, mainst>>

\* line 149: return pem_to_der(sig.read_bytes())
Transcode(p) ==
    LET der == pem_to_der(fs[Child(loc[p].d, "signature")].text)
    IN  /\ pc[p] = "transcode"
        /\ IF der.ok
           THEN /\ SetLoc(p, [loc[p] EXCEPT !.old_sig = der.data])
                /\ Goto(p, "tmpdir_finally")
           ELSE Raise(p, "binascii.Error", "tmpdir_finally")
        /\ UNCHANGED <<fs, fs0, args, result, calls, hist, signerRet, attachArg, mainst>>

\* shutil.rmtree(d)
Rmtree(n) == [path \in AllPaths |-> IF path.k = "tmpdir" /\ path.n = n THEN Absent ELSE fs[path]]

\* mutant: no try/finally, the directory is removed on a normal exit only
TmpdirFinally_NoFinally(p) ==
    /\ pc[p] = "tmpdir_finally"
    /\ IF loc[p].exc # "none"
       THEN /\ Goto(p, "dummy_except")
            /\ UNCHANGED <<fs, loc>>
       ELSE /\ fs' = Rmtree(loc[p].d)
            /\ Goto(p, "decode")
            /\ UNCHANGED loc
    /\ UNCHANGED <<fs0, args, result, calls, hist, signerRet, attachArg, mainst>>

\* tmpdir(), lines 83-84: the finally clause, on return and on an exception;
\* with d unbound, shutil.rmtree(d) raises UnboundLocalError
TmpdirFinally(p) ==
    /\ pc[p] = "tmpdir_finally"
    /\ IF loc[p].d = 0
       THEN /\ Raise(p, "UnboundLocalError", "dummy_except")
            /\ UNCHANGED fs
       ELSE /\ fs' = Rmtree(loc[p].d)
            /\ Goto(p, IF loc[p].exc = "none" THEN "decode" ELSE "dummy_except")
            /\ UNCHANGED loc
    /\ UNCHANGED <<fs0, args, result, calls, hist, signerRet, attachArg, mainst>>

\* mutant: the dummy signature is tried again after an OSError
DummyExcept_Retry(p) ==
    /\ pc[p] = "dummy_except"
    /\ IF IsOSError(loc[p].exc)
       THEN /\ SetLoc(p, NoLocals)
            /\ Goto(p, "start")
            /\ UNCHANGED <<result, hist>>
       ELSE /\ Propagate(p)
            /\ UNCHANGED loc
    /\ UNCHANGED <<fs, fs0, args, calls, signerRet, attachArg, mainst>>

\* lines 185-188: except OSError: ... return False
DummyExcept(p) ==
    /\ pc[p] = "dummy_except"
    /\ IF IsOSError(loc[p].exc) THEN ReturnFalse(p) ELSE Propagate(p)
    /\ UNCHANGED <<fs, fs0, args, loc, calls, signerRet, attachArg, mainst>>

(***************************************************************************)
(* winsign's second try (lines 190-200): decode, certificates, re-sign.    *)
(***************************************************************************)
\* line 192: old_sig = get_signeddata(old_sig)
Decode(p) ==
    /\ pc[p] = "decode"
    /\ IF WellFormed(loc[p].old_sig)
       THEN /\ SetLoc(p, [loc[p] EXCEPT !.signeddata = get_signeddata(loc[p].old_sig)])
            /\ Enter(p, "DECODED")
            /\ Goto(p, "certs")
       ELSE /\ Raise(p, "ValueError", "resign_except")
            /\ UNCHANGED hist
    /\ UNCHANGED <<fs, fs0, args, result, calls, signerRet, attachArg, mainst>>

\* mutant: the cross certificate is put in front of the leaf certificate
BuildCerts_CrossFirst(p) ==
    /\ pc[p] = "certs"
    /\ IF args[p].crosscert = None
       THEN /\ SetLoc(p, [loc[p] EXCEPT !.certs = <<args[p].cert>>])
            /\ Goto(p, "resign")
       ELSE IF fs[args[p].crosscert].kind = "pemcert"
       THEN /\ SetLoc(p, [loc[p] EXCEPT !.certs = <<fs[args[p].crosscert].id, args[p].cert>>])
            /\ Goto(p, "resign")
       ELSE Raise(p, "ValueError", "resign_except")
    /\ UNCHANGED <<fs, fs0, args, result, calls, hist, signerRet, attachArg, mainst>>

\* lines 193-195: certs = [cert], then the cross certificate, which
\* load_pem_cert reads from PEM only
BuildCerts(p) ==
    /\ pc[p] = "certs"
    /\ IF args[p].crosscert = None
       THEN /\ SetLoc(p, [loc[p] EXCEPT !.certs = <<args[p].cert>>])
            /\ Goto(p, "resign")
       ELSE IF fs[args[p].crosscert].kind = "pemcert"
       THEN /\ SetLoc(p, [loc[p] EXCEPT !.certs = <<args[p].cert, fs[args[p].crosscert].id>>])
            /\ Goto(p, "resign")
       ELSE Raise(p, "ValueError", "resign_except")
    /\ UNCHANGED <<fs, fs0, args, result, calls, hist, signerRet, attachArg, mainst>>

\* what the signer capability can return: the failure sentinel, or bytes
SignerResults == {SignerFalse} \cup {SignerBytes(n) : n \in 0..MaxSigLen}

\* lines 301-307: the signer main builds from a private key returns what
\* sign_signer_digest returns
KeySignerResults == {SignerBytes(n) : n \in 1..MaxSigLen}

\* lines 311-313: the signer main builds without a private key returns False
AutographSignerResults == {SignerFalse}

\* what the signer given to winsign can return
SignerReturns(signer) ==
    IF signer = "autograph" THEN AutographSignerResults
    ELSE IF signer = "local_key" THEN KeySignerResults
    ELSE SignerResults

\* line 196: newsig = resign(old_sig, certs, signer); resign calls the signer
\* once, and a falsy result or an exception of the signer ends it
Resign(p) ==
    /\ pc[p] = "resign"
    /\ Invoked(p, "signer")
    /\ \/ \E r \in SignerReturns(args[p].signer) :
            IF r.falsy
            THEN /\ signerRet' = [signerRet EXCEPT ![p] = "falsy"]
                 /\ Raise(p, "SigningFailed", "resign_except")
                 /\ UNCHANGED hist
            ELSE /\ signerRet' = [signerRet EXCEPT ![p] = "bytes"]
                 /\ SetLoc(p, [loc[p] EXCEPT
                        !.newsig = resign(loc[p].signeddata, loc[p].certs, r.bytes)])
                 /\ Enter(p, "RESIGNED")
                 /\ Goto(p, "package")
       \/ /\ args[p].signer # "autograph"
          /\ signerRet' = [signerRet EXCEPT ![p] = "raised"]
          /\ Raise(p, "SignerError", "resign_except")
          /\ UNCHANGED hist
    /\ UNCHANGED <<fs, fs0, args, result, attachArg, mainst>>

\* mutant: the exception is swallowed and the pipeline goes on to attach
ResignExcept_Swallow(p) ==
    /\ pc[p] = "resign_except"
    /\ Goto(p, "package")
    /\ UNCHANGED <<fs, fs0, args, loc, result, calls, hist, signerRet, attachArg, mainst>>

\* mutant: the second try block is run again after a failure
ResignExcept_Retry(p) ==
    /\ pc[p] = "resign_except"
    /\ Goto(p, "decode")
    /\ UNCHANGED <<fs, fs0, args, loc, result, calls, hist, signerRet, attachArg, mainst>>

\* lines 197-200: except Exception: ... return False
ResignExcept(p) ==
    /\ pc[p] = "resign_except"
    /\ IF IsException(loc[p].exc) THEN ReturnFalse(p) ELSE Propagate(p)
    /\ UNCHANGED <<fs, fs0, args, loc, calls, signerRet, attachArg, mainst>>

(***************************************************************************)
(* winsign's third try (lines 202-208): write_signature (lines 152-174).   *)
(***************************************************************************)
\* lines 154-164: package the signature and write it to a fresh
\* NamedTemporaryFile, whose creation can fail with OSError
Package(p) ==
    /\ pc[p] = "package"
    /\ \/ \E n \in TmpNames :
            /\ ~Exists(TmpFile(n))
            /\ fs' = [fs EXCEPT ![TmpFile(n)] =
                        Bin(PackageSignature(is_pefile(fs[args[p].infile]), loc[p].newsig))]
            /\ SetLoc(p, [loc[p] EXCEPT !.sigfile = n])
            /\ Enter(p, "PACKAGED")
            /\ Goto(p, "attach")
       \/ /\ Raise(p, "OSError", "ws_raised")
          /\ UNCHANGED <<fs, hist>>
    /\ UNCHANGED <<fs0, args, result, calls, signerRet, attachArg, mainst>>

\* what a failed attach-signature can leave at its -out path: what was
\* there, a partly written file, or nothing (the utility unlinks it)
AttachLeftovers(path) == {fs[path], Partial, Absent}

\* lines 165-174 with osslsigncode: attach-signature -sigin sigfile -in infile
\* -out outfile
Attach(p) ==
    LET sigin == fs[TmpFile(loc[p].sigfile)].data
    IN  /\ pc[p] = "attach"
        /\ Invoked(p, "attach")
        /\ attachArg' = [attachArg EXCEPT ![p] = sigin]
        /\ \/ /\ fs[args[p].infile].kind = "exe"
              /\ fs' = [fs EXCEPT ![args[p].outfile] = ToolAttach(fs[args[p].infile], sigin)]
              /\ Enter(p, "ATTACHED")
              /\ Goto(p, "sigfile_close")
              /\ UNCHANGED loc
           \/ /\ \E left \in AttachLeftovers(args[p].outfile) :
                    fs' = [fs EXCEPT ![args[p].outfile] = left]
              /\ Raise(p, "OSError", "sigfile_close")
              /\ UNCHANGED hist
        /\ UNCHANGED <<fs0, args, result, signerRet, mainst>>

\* line 162: leaving the with block closes and removes the temporary file
SigfileClose(p) ==
    /\ pc[p] = "sigfile_close"
    /\ fs' = [fs EXCEPT ![TmpFile(loc[p].sigfile)] = Absent]
    /\ Goto(p, IF loc[p].exc = "none" THEN "ws_returned" ELSE "ws_raised")
    /\ UNCHANGED <<fs0, args, loc, result, calls, hist, signerRet, attachArg, mainst>>

\* lines 205-208: except Exception: ... return False
AttachExcept(p) ==
    /\ pc[p] = "ws_raised"
    /\ IF IsException(loc[p].exc) THEN ReturnFalse(p) ELSE Propagate(p)
    /\ UNCHANGED <<fs, fs0, args, loc, calls, signerRet, attachArg, mainst>>

\* lines 210-211: return True
ReturnTrue(p) ==
    /\ pc[p] = "ws_returned"
    /\ result' = [result EXCEPT ![p] = "True"]
    /\ Goto(p, "done")
    /\ UNCHANGED <<fs, fs0, args, loc, calls, hist, signerRet, attachArg, mainst>>

(***************************************************************************)
(* One call of winsign.                                                    *)
(***************************************************************************)
Next ==
    \/ \E p \in Procs : TmpdirEnter(p)
    \/ \E p \in Procs : WriteCert(p)
    \/ \E p \in Procs : SignFile(p)
    \/ \E p \in Procs : ExtractSignature(p)
    \/ \E p \in Procs : Transcode(p)
    \/ \E p \in Procs : TmpdirFinally(p)
    \/ \E p \in Procs : DummyExcept(p)
    \/ \E p \in Procs : Decode(p)
    \/ \E p \in Procs : BuildCerts(p)
    \/ \E p \in Procs : Resign(p)
    \/ \E p \in Procs : ResignExcept(p)
    \/ \E p \in Procs : Package(p)
    \/ \E p \in Procs : Attach(p)
    \/ \E p \in Procs : SigfileClose(p)
    \/ \E p \in Procs : AttachExcept(p)
    \/ \E p \in Procs : ReturnTrue(p)

Spec == Init /\ [][Next]_vars

(***************************************************************************)
(* write_signature called on its own, with any byte string as sig.         *)
(***************************************************************************)
DirectSigs == {[i \in 1..n |-> fill] : n \in 0..MaxDirectLen, fill \in {0, 171}}

InitWS ==
    /\ InitFor({1})
    /\ args[1].crosscert = None
    /\ args[1].digest_algo = "sha1"

\* the call write_signature(infile, outfile, sig)
CallWriteSignature(p) ==
    /\ pc[p] = "start"
    /\ \E sig \in DirectSigs : SetLoc(p, [loc[p] EXCEPT !.newsig = sig])
    /\ Goto(p, "package")
    /\ UNCHANGED <<fs, fs0, args, result, calls, hist, signerRet, attachArg, mainst>>

\* write_signature returns None, or its exception reaches the caller
LeaveWriteSignature(p) ==
    /\ pc[p] \in {"ws_returned", "ws_raised"}
    /\ result' = [result EXCEPT ![p] = IF loc[p].exc = "none" THEN "None" ELSE "raised"]
    /\ Goto(p, "done")
    /\ UNCHANGED <<fs, fs0, args, loc, calls, hist, signerRet, attachArg, mainst>>

NextWS ==
    \/ \E p \in Procs : CallWriteSignature(p)
    \/ \E p \in Procs : Package(p)
    \/ \E p \in Procs : Attach(p)
    \/ \E p \in Procs : SigfileClose(p)
    \/ \E p \in Procs : LeaveWriteSignature(p)

SpecWS == InitWS /\ [][NextWS]_vars

(***************************************************************************)
(* Properties.                                                             *)
(***************************************************************************)
Done(p) == pc[p] = "done"

Entered(p, stage) == stage \in Range(hist[p])

IsTmpPath(path) == path.k \in {"tmpdir", "tmpfile"}

\* the signature bytes embedded in a file, without the PE encapsulation
EmbeddedSignature(content) ==
    IF content.pe THEN CertData(content.sig) ELSE content.sig

\* C1: once the signer capability has returned a falsy result, the
\* attach-signature operation is not invoked and the packaging stage is
\* not entered, and the run, when it ends, has returned False.
C1_SignerFailureNeverAttaches ==
    \A p \in Procs :
        signerRet[p] = "falsy" =>
            /\ calls[p].attach = 0
            /\ ~Entered(p, "PACKAGED")
            /\ ~Entered(p, "ATTACHED")
            /\ pc[p] \in {"resign_except", "done"}
            /\ Done(p) => result[p] = "False"

C1_Witness ==
    \E p \in Procs : signerRet[p] = "falsy" /\ Done(p) /\ result[p] = "False"

\* C2: the output path is written only once attach has succeeded, and a run
\* that ended in failure has left the input file and the output path as
\* they were when it started.
C2_AllOrNothing ==
    \A p \in Procs :
        /\ fs[args[p].outfile] # fs0[args[p].outfile] => Entered(p, "ATTACHED")
        /\ (Done(p) /\ result[p] # "True") =>
               /\ fs[args[p].infile] = fs0[args[p].infile]
               /\ fs[args[p].outfile] = fs0[args[p].outfile]

\* a sign or extract-signature call of the bootstrap exited non-zero
BootstrapToolFailed(p) ==
    \/ calls[p].sign >= 1 /\ ~Entered(p, "DUMMY_SIGNED")
    \/ calls[p].extract >= 1 /\ ~Entered(p, "EXTRACTED")

\* C3: after a non-zero exit of the bootstrap's sign or extract-signature
\* call the input file is what it was, nothing is at the output path that
\* was not there before, the signer and attach are not invoked, and the run,
\* when it ends, has returned False.
C3_BootstrapFailure ==
    \A p \in Procs :
        BootstrapToolFailed(p) =>
            /\ fs[args[p].infile] = fs0[args[p].infile]
            /\ fs[args[p].outfile] = fs0[args[p].outfile]
            /\ ~Exists(OutPath(p))
            /\ calls[p].signer = 0
            /\ calls[p].attach = 0
            /\ Done(p) => result[p] = "False"

C3_Witness ==
    \E p \in Procs :
        /\ calls[p].extract = 1
        /\ ~Entered(p, "EXTRACTED")
        /\ Done(p)
        /\ result[p] = "False"
        /\ fs[Child(loc[p].d, "signature")] = Absent

\* C4: from the re-sign stage on, the message digest of the new signature is
\* that of the dummy signature, and in a successful run the signature
\* embedded in the output carries that same digest, which is the utility's
\* digest of the input under the chosen algorithm.
C4_DigestPreserved ==
    \A p \in Procs :
        /\ Entered(p, "RESIGNED") =>
               MessageDigestOf(loc[p].newsig) = MessageDigestOf(loc[p].old_sig)
        /\ (Done(p) /\ result[p] = "True") =>
               LET raw == EmbeddedSignature(fs[args[p].outfile])
               IN  /\ WellFormed(raw)
                   /\ MessageDigestOf(raw) = MessageDigestOf(loc[p].old_sig)
                   /\ MessageDigestOf(raw) =
                          FileDigest(fs0[args[p].infile].body, args[p].digest_algo)
                   /\ get_signeddata(raw).algo = args[p].digest_algo

C4_Witness ==
    \E p \in Procs :
        /\ Done(p)
        /\ result[p] = "True"
        /\ args[p].digest_algo = "sha256"
        /\ fs[args[p].outfile].pe
        /\ Len(loc[p].newsig) % 8 # 0
        /\ MessageDigestOf(EmbeddedSignature(fs[args[p].outfile])) =
               FileDigest(fs0[args[p].infile].body, "sha256")

\* C5: for a PE target and a signature of length L, the packaged data is the
\* signature followed by (8 - L mod 8) mod 8 zero bytes, its length is a
\* multiple of 8 below L + 8, and the size field is that length + 8.
C5_PaddingLaw ==
    \A p \in Procs :
        (pc[p] = "attach" /\ is_pefile(fs[args[p].infile])) =>
            LET sig == loc[p].newsig
                L == Len(sig)
                cert == fs[TmpFile(loc[p].sigfile)].data
                data == CertData(cert)
            IN  /\ Len(data) = L + ((8 - (L % 8)) % 8)
                /\ Len(data) % 8 = 0
                /\ Len(data) < L + 8
                /\ CertSize(cert) = Len(data) + 8
                /\ Len(cert) = CertSize(cert)
                /\ Take(data, L) = sig
                /\ Drop(data, L) = Zeros(Len(data) - L)
                /\ L = 10 => CertSize(cert) = 24
                /\ L = 16 => CertSize(cert) = 24

C5_Witness ==
    \E p \in Procs :
        /\ pc[p] = "attach"
        /\ is_pefile(fs[args[p].infile])
        /\ Len(loc[p].newsig) = 10
        /\ CertSize(fs[TmpFile(loc[p].sigfile)].data) = 24

\* C6: for a target that is not a PE file, the bytes given to
\* attach-signature are exactly the bytes re-signing produced.
C6_NonPEUnchanged ==
    \A p \in Procs :
        (calls[p].attach >= 1 /\ ~is_pefile(fs0[args[p].infile])) =>
            attachArg[p] = loc[p].newsig

C6_Witness ==
    \E p \in Procs :
        /\ calls[p].attach = 1
        /\ ~is_pefile(fs0[args[p].infile])
        /\ Len(loc[p].newsig) % 8 # 0
        /\ attachArg[p] = loc[p].newsig

StageOrder ==
    <<"START", "DUMMY_SIGNED", "EXTRACTED", "DECODED", "RESIGNED", "PACKAGED", "ATTACHED">>

IsPrefix(s, t) == Len(s) <= Len(t) /\ s = Take(t, Len(s))

\* the stages entered are the fixed order up to some stage, then possibly FAILED
InOrder(h) ==
    \/ IsPrefix(h, StageOrder)
    \/ /\ Len(h) >= 2
       /\ h[Len(h)] = "FAILED"
       /\ IsPrefix(Take(h, Len(h) - 1), StageOrder)

C7_Stages ==
    \A p \in Procs :
        /\ InOrder(hist[p])
        /\ Entered(p, "FAILED") => Done(p) /\ result[p] # "True"
        /\ result[p] = "True" => hist[p] = StageOrder
        /\ Done(p) => result[p] = "True" \/ Entered(p, "FAILED")
        /\ calls[p].sign <= 1
        /\ calls[p].extract <= 1
        /\ calls[p].attach <= 1
        /\ calls[p].sign >= 1 \/ ~Entered(p, "DUMMY_SIGNED")
        /\ calls[p].extract >= 1 \/ ~Entered(p, "EXTRACTED")
        /\ calls[p].attach >= 1 \/ ~Entered(p, "ATTACHED")

\* a run that has ended takes no further step
C7_Terminal ==
    \A p \in Procs :
        Done(p) =>
            /\ pc'[p] = pc[p]
            /\ hist'[p] = hist[p]
            /\ calls'[p] = calls[p]
            /\ result'[p] = result[p]
            /\ fs' = fs

\* C7: a run enters the stages START, DUMMY_SIGNED, EXTRACTED, DECODED,
\* RESIGNED, PACKAGED, ATTACHED in this order, each at most once and none
\* skipped; the only other stage is FAILED, after which nothing runs; True
\* is returned only after ATTACHED; and sign, extract-signature and
\* attach-signature are each invoked at most once.
C7_FixedStageOrder == []C7_Stages /\ [][C7_Terminal]_vars

C7_Witness ==
    \E p \in Procs :
        /\ Done(p)
        /\ hist[p] = <<"START", "DUMMY_SIGNED", "EXTRACTED", "DECODED", "FAILED">>
        /\ calls[p].sign = 1
        /\ calls[p].extract = 1
        /\ calls[p].attach = 0

\* C8 as stated: every run that has ended has invoked the signer exactly once.
C8_ExactlyOnce == \A p \in Procs : Done(p) => calls[p].signer = 1

\* C8, amended: the signer is invoked at most once per run; exactly once in a
\* run that reached the re-sign call (the dummy signature was generated and
\* decoded and the certificates were loaded), and so in every successful
\* run; not at all in a run that failed before that; and a run in which the
\* signer failed ends with that one invocation.
C8_AtMostOnce ==
    \A p \in Procs :
        /\ calls[p].signer <= 1
        /\ calls[p].signer = 1 <=> signerRet[p] # "none"
        /\ result[p] = "True" => calls[p].signer = 1 /\ signerRet[p] = "bytes"
        /\ Entered(p, "RESIGNED") => calls[p].signer = 1
        /\ calls[p].signer = 1 => Entered(p, "DECODED")
        /\ (Done(p) /\ calls[p].signer = 0) =>
               /\ result[p] # "True"
               /\ ~Entered(p, "RESIGNED")
               /\ loc[p].certs = <<>> \/ ~Entered(p, "DECODED")

C8_Witness ==
    \E p \in Procs :
        /\ Done(p)
        /\ result[p] = "False"
        /\ calls[p].signer = 1
        /\ signerRet[p] \in {"falsy", "raised"}
        /\ calls[p].attach = 0

\* C9: no failure leaves winsign as a raised exception.
C9_NoExceptionEscapes == \A p \in Procs : result[p] # "raised"

\* C10: until attach-signature is invoked a run has written to temporary
\* paths only, and when it has ended, however it ended, no temporary
\* directory or file exists.
C10_TemporariesRemoved ==
    \A p \in Procs :
        /\ calls[p].attach = 0 =>
               \A path \in AllPaths : fs[path] # fs0[path] => IsTmpPath(path)
        /\ Done(p) => \A path \in AllPaths : IsTmpPath(path) => ~Exists(path)

C10_Witness ==
    \E p \in Procs :
        /\ Done(p)
        /\ result[p] = "raised"
        /\ loc[p].d # 0
        /\ calls[p].extract = 1
        /\ \A path \in AllPaths : IsTmpPath(path) => ~Exists(path)

\* the certificate list winsign is to hand to resign for its arguments
ExpectedCerts(p) ==
    IF args[p].crosscert = None
    THEN <<args[p].cert>>
    ELSE <<args[p].cert, fs0[args[p].crosscert].id>>

\* C11: whenever the signer has been invoked, the certificate list given to
\* resign is the leaf certificate followed by the cross certificate, if one
\* was supplied, and is exactly [leaf] otherwise; the dummy certificate is
\* not in it; and the new signature carries that list in that order.
C11_LeafFirst ==
    \A p \in Procs :
        /\ (pc[p] = "resign" \/ calls[p].signer >= 1) =>
               /\ loc[p].certs = ExpectedCerts(p)
               /\ loc[p].certs[1] = LeafCert
               /\ DummyCert \notin Range(loc[p].certs)
               /\ args[p].crosscert = None => loc[p].certs = <<LeafCert>>
        /\ Entered(p, "RESIGNED") =>
               get_signeddata(loc[p].newsig).certs = ExpectedCerts(p)

C11_Witness ==
    \E p \in Procs :
        /\ Entered(p, "RESIGNED")
        /\ args[p].crosscert # None
        /\ loc[p].certs = <<LeafCert, CrossCert>>
        /\ DummyCert \in Range(get_signeddata(loc[p].old_sig).certs)

(***************************************************************************)
(* Two calls of winsign running concurrently, on different input and       *)
(* output files, their steps interleaved in any order.                     *)
(***************************************************************************)
InitConc ==
    /\ InitFor({1, 2})
    /\ \A p \in {1, 2} :
         /\ args[p].outfile = OutPath(p)
         /\ args[p].crosscert = None
         /\ args[p].digest_algo = IF p = 1 THEN "sha1" ELSE "sha256"
         /\ fs[InPath(p)].body = p
         /\ fs[InPath(p)].pe = (p = 1)

SpecConc == InitConc /\ [][Next]_vars

\* the run holds a temporary directory / a temporary signature file
DirLive(p) ==
    \/ pc[p] \in {"write_cert", "sign_file", "extract", "transcode"}
    \/ pc[p] = "tmpdir_finally" /\ loc[p].d # 0

FileLive(p) == pc[p] \in {"attach", "sigfile_close"}

\* the paths a run reads or writes: its arguments and its live temporaries
OwnPaths(p) ==
    {args[p].infile, args[p].outfile}
        \cup (IF DirLive(p)
              THEN {path \in AllPaths : path.k = "tmpdir" /\ path.n = loc[p].d}
              ELSE {})
        \cup (IF FileLive(p) THEN {TmpFile(loc[p].sigfile)} ELSE {})

C12_Disjoint ==
    \A p \in Procs :
        /\ \A q \in Procs \ {p} : OwnPaths(p) \cap OwnPaths(q) = {}
        /\ DirLive(p) => fs[TmpDir(loc[p].d)] = Dir
        /\ pc[p] \in {"sign_file", "extract", "transcode"} =>
               fs[Child(loc[p].d, "cert.pem")] = DUMMY_KEY
        /\ pc[p] = "extract" =>
               fs[Child(loc[p].d, "signed1")] =
                   ToolSign(fs0[args[p].infile], DummyCert, args[p].digest_algo, <<>>)
        /\ Entered(p, "DECODED") =>
               loc[p].signeddata.digest =
                   FileDigest(fs0[args[p].infile].body, args[p].digest_algo)
        /\ FileLive(p) =>
               fs[TmpFile(loc[p].sigfile)] =
                   Bin(PackageSignature(is_pefile(fs0[args[p].infile]), loc[p].newsig))
        /\ (Done(p) /\ result[p] = "True") =>
               fs[args[p].outfile] =
                   ToolAttach(fs0[args[p].infile],
                              PackageSignature(is_pefile(fs0[args[p].infile]), loc[p].newsig))
        /\ fs[args[p].infile] = fs0[args[p].infile]

\* a step of one run leaves the other run's variables and paths alone
C12_Frame ==
    \A q \in Procs :
        pc'[q] = pc[q] =>
            /\ loc'[q] = loc[q]
            /\ result'[q] = result[q]
            /\ calls'[q] = calls[q]
            /\ hist'[q] = hist[q]
            /\ \A path \in OwnPaths(q) : fs'[path] = fs[path]

\* C12: two concurrent runs on different files never hold the same temporary
\* directory or temporary signature file, no step of one run changes a
\* variable or a path of the other, and what each run finds in its
\* intermediate files and writes to its output is determined by its own
\* arguments and its own signer's answer, as when it runs alone.
C12_ConcurrentRunsIsolated == []C12_Disjoint /\ [][C12_Frame]_vars

C12_Witness ==
    /\ Procs = {1, 2}
    /\ DirLive(1)
    /\ DirLive(2)
    /\ loc[1].d # loc[2].d
    /\ pc[1] = "extract"
    /\ pc[2] = "extract"

(***************************************************************************)
(* main (lines 281-346): the command-line entry point around winsign.      *)
(***************************************************************************)
SetMain(p, f) == mainst' = [mainst EXCEPT ![p] = f]

\* the command lines: infile and outfile are paths or "-", outfile may be
\* left out, --key and the autograph credentials may be given or not
ArgvChoices(p) ==
    [infile : {InPath(p), Stdio}, outfile : {None, OutPath(p), Stdio},
     priv_key : BOOLEAN, autograph : BOOLEAN]

NoArgs ==
    [infile |-> None, outfile |-> None, digest_algo |-> "sha1", cert |-> LeafCert,
     crosscert |-> None, signer |-> "capability"]

InitMain ==
    /\ \E argv \in ArgvChoices(1), input \in InputFiles :
         /\ mainst = [p \in {1} |->
                        [NoMain EXCEPT !.argv = argv, !.cmdline = argv,
                                       !.stdin = IF argv.infile = Stdio THEN input ELSE Absent]]
         /\ fs = [path \in AllPaths |->
                    IF path = InPath(1) /\ argv.infile = InPath(1) THEN input ELSE Absent]
    /\ \E algo \in DigestAlgos : args = [p \in {1} |-> [NoArgs EXCEPT !.digest_algo = algo]]
    /\ fs0 = fs
    /\ pc = [p \in {1} |-> "main"]
    /\ loc = [p \in {1} |-> NoLocals]
    /\ result = [p \in {1} |-> "none"]
    /\ calls = [p \in {1} |-> NoCalls]
    /\ hist = [p \in {1} |-> <<>>]
    /\ signerRet = [p \in {1} |-> "none"]
    /\ attachArg = [p \in {1} |-> <<>>]

\* lines 287-313: parser.error (SystemExit with status 2) without a key and
\* without the autograph credentials; outfile defaults to infile; the
\* certificate is loaded and the signer is built
MainSetup(p) ==
    LET argv == mainst[p].argv
    IN  /\ pc[p] = "main"
        /\ IF ~argv.priv_key /\ ~argv.autograph
           THEN /\ SetMain(p, [mainst[p] EXCEPT !.exit = "2"])
                /\ Goto(p, "exited")
                /\ UNCHANGED args
           ELSE /\ SetMain(p, [mainst[p] EXCEPT
                       !.argv.outfile = IF argv.outfile = None THEN argv.infile ELSE argv.outfile])
                /\ args' = [args EXCEPT ![p].cert = LeafCert,
                                        ![p].signer = IF argv.priv_key THEN "local_key"
                                                      ELSE "autograph"]
                /\ Goto(p, "main_tmpdir")
        /\ UNCHANGED <<fs, fs0, loc, result, calls, hist, signerRet, attachArg>>

\* line 315 with tmpdir(), lines 80-82
MainTmpdirEnter(p) ==
    /\ pc[p] = "main_tmpdir"
    /\ \/ \E n \in TmpNames :
            /\ ~Exists(TmpDir(n))
            /\ fs' = [fs EXCEPT ![TmpDir(n)] = Dir]
            /\ SetMain(p, [mainst[p] EXCEPT !.d = n])
            /\ Goto(p, "main_call")
       \/ /\ SetMain(p, [mainst[p] EXCEPT !.exc = "OSError"])
          /\ Goto(p, "main_finally")
          /\ UNCHANGED fs
    /\ UNCHANGED <<fs0, args, loc, result, calls, hist, signerRet, attachArg>>

\* copy_stream (lines 273-278): everything read from the one is written to
\* the other
copy_stream(instream) == instream

\* lines 316-334: standard input is copied to d / "unsigned", the output goes
\* to d / "signed" when it is to be standard output, and winsign is called
MainCallWinsign(p) ==
    LET argv == mainst[p].argv
        d == mainst[p].d
        infile == IF argv.infile = Stdio THEN Child(d, "unsigned") ELSE argv.infile
        outfile == IF argv.outfile = Stdio THEN Child(d, "signed") ELSE argv.outfile
    IN  /\ pc[p] = "main_call"
        /\ fs' = IF argv.infile = Stdio
                 THEN [fs EXCEPT ![infile] = copy_stream(mainst[p].stdin)]
                 ELSE fs
        /\ SetMain(p, [mainst[p] EXCEPT !.argv.infile = infile, !.outfile = outfile])
        /\ args' = [args EXCEPT ![p].infile = infile, ![p].outfile = outfile,
                                ![p].crosscert = None]
        /\ hist' = [hist EXCEPT ![p] = <<"START">>]
        /\ Goto(p, "start")
        /\ UNCHANGED <<fs0, loc, result, calls, signerRet, attachArg>>

\* lines 339-346, once winsign has returned or raised: return 1, or copy the
\* output to standard output when it was asked for and return 0
MainAfterWinsign(p) ==
    /\ pc[p] = "done"
    /\ IF result[p] = "raised"
       THEN SetMain(p, [mainst[p] EXCEPT !.exc = loc[p].exc])
       ELSE IF result[p] # "True"
       THEN SetMain(p, [mainst[p] EXCEPT !.ret = "1"])
       ELSE SetMain(p, [mainst[p] EXCEPT
                !.ret = "0",
                !.stdout = IF mainst[p].argv.outfile = Stdio
                           THEN Append(@, copy_stream(fs[mainst[p].outfile]))
                           ELSE @])
    /\ Goto(p, "main_finally")
    /\ UNCHANGED <<fs, fs0, args, loc, result, calls, hist, signerRet, attachArg>>

\* tmpdir(), lines 83-84, as main's with block is left; then main returns
\* its value or its exception goes on
MainTmpdirFinally(p) ==
    /\ pc[p] = "main_finally"
    /\ IF mainst[p].d = 0
       THEN /\ SetMain(p, [mainst[p] EXCEPT !.exc = "UnboundLocalError", !.exit = "raised"])
            /\ UNCHANGED fs
       ELSE /\ fs' = Rmtree(mainst[p].d)
            /\ SetMain(p, [mainst[p] EXCEPT
                   !.exit = IF mainst[p].exc = "none" THEN mainst[p].ret ELSE "raised"])
    /\ Goto(p, "exited")
    /\ UNCHANGED <<fs0, args, loc, result, calls, hist, signerRet, attachArg>>

NextMain ==
    \/ \E p \in Procs : MainSetup(p)
    \/ \E p \in Procs : MainTmpdirEnter(p)
    \/ \E p \in Procs : MainCallWinsign(p)
    \/ \E p \in Procs : TmpdirEnter(p)
    \/ \E p \in Procs : WriteCert(p)
    \/ \E p \in Procs : SignFile(p)
    \/ \E p \in Procs : ExtractSignature(p)
    \/ \E p \in Procs : Transcode(p)
    \/ \E p \in Procs : TmpdirFinally(p)
    \/ \E p \in Procs : DummyExcept(p)
    \/ \E p \in Procs : Decode(p)
    \/ \E p \in Procs : BuildCerts(p)
    \/ \E p \in Procs : Resign(p)
    \/ \E p \in Procs : ResignExcept(p)
    \/ \E p \in Procs : Package(p)
    \/ \E p \in Procs : Attach(p)
    \/ \E p \in Procs : SigfileClose(p)
    \/ \E p \in Procs : AttachExcept(p)
    \/ \E p \in Procs : ReturnTrue(p)
    \/ \E p \in Procs : MainAfterWinsign(p)
    \/ \E p \in Procs : MainTmpdirFinally(p)

SpecMain == InitMain /\ [][NextMain]_vars

(***************************************************************************)
(* Properties of main.                                                     *)
(***************************************************************************)
Exited(p) == pc[p] = "exited"

\* main has called winsign
Called(p) == hist[p] # <<>>

\* this step is taken inside winsign, between its call and its end
InWinsign(p) == Called(p) /\ pc[p] \notin {"done", "main_finally", "exited"}

\* C13: once main has ended after calling winsign, its exit status is 0 if
\* and only if winsign returned True, and 1 otherwise; and anything written
\* to standard output is the signed output of a winsign that returned True,
\* with outfile "-".
C13_ExitStatus ==
    \A p \in Procs :
        /\ (Exited(p) /\ Called(p)) =>
               /\ mainst[p].exit = "0" <=> result[p] = "True"
               /\ result[p] # "True" => mainst[p].exit = "1"
        /\ mainst[p].stdout # <<>> =>
               /\ result[p] = "True"
               /\ mainst[p].argv.outfile = Stdio
               /\ Len(mainst[p].stdout) = 1

\* the parts of C13 that do not depend on winsign returning: the status when
\* it did return, and standard output written only after success
C13_WhenReturned ==
    \A p \in Procs :
        /\ (Exited(p) /\ result[p] \in {"True", "False"}) =>
               /\ mainst[p].exit = "0" <=> result[p] = "True"
               /\ result[p] # "True" => mainst[p].exit = "1"
        /\ mainst[p].stdout # <<>> =>
               /\ result[p] = "True"
               /\ mainst[p].argv.outfile = Stdio
               /\ Len(mainst[p].stdout) = 1

\* a file outside the temporary directories differs from what it was
OutputProduced(p) ==
    \/ mainst[p].stdout # <<>>
    \/ \E path \in AllPaths : ~IsTmpPath(path) /\ fs[path] # fs0[path]

\* C14: in a run of main without a private key, the signer never returns a
\* signature, attach-signature is not invoked, no output is produced, and
\* the run, once it has ended, has exit status 1.
C14_AutographAlwaysFails ==
    \A p \in Procs :
        args[p].signer = "autograph" =>
            /\ signerRet[p] \in {"none", "falsy"}
            /\ calls[p].attach = 0
            /\ ~OutputProduced(p)
            /\ Exited(p) => mainst[p].exit = "1"

\* the parts of C14 that hold: whatever the outcome, the signer has not
\* returned a signature, attach-signature has not run, nothing was produced
\* and the exit status is not 0
C14_NeverSucceeds ==
    \A p \in Procs :
        args[p].signer = "autograph" =>
            /\ signerRet[p] \in {"none", "falsy"}
            /\ calls[p].attach = 0
            /\ ~OutputProduced(p)
            /\ Exited(p) => mainst[p].exit \in {"1", "raised"}
            /\ (Exited(p) /\ result[p] = "False") => mainst[p].exit = "1"

\* without an outfile argument the output is what the input was given as,
\* and a file given as input is the output path handed to winsign
C15_OutputIsInput ==
    \A p \in Procs :
        (mainst[p].cmdline.outfile = None /\ pc[p] # "main" /\ mainst[p].exit # "2") =>
            /\ mainst[p].argv.outfile = mainst[p].cmdline.infile
            /\ (Called(p) /\ mainst[p].cmdline.infile # Stdio) =>
                   /\ args[p].infile = mainst[p].cmdline.infile
                   /\ args[p].outfile = args[p].infile

\* a step that changes the input file is the attach-signature call of a run
\* whose bootstrap and re-sign stages have succeeded; the sign call of the
\* bootstrap changes files of the temporary directory only
C15_OnlyAttachWrites ==
    \A p \in Procs :
        /\ fs'[InPath(p)] # fs[InPath(p)] =>
               /\ pc[p] = "attach"
               /\ calls'[p].attach = calls[p].attach + 1
               /\ Entered(p, "DUMMY_SIGNED") /\ Entered(p, "EXTRACTED")
               /\ Entered(p, "RESIGNED") /\ Entered(p, "PACKAGED")
               /\ signerRet[p] = "bytes"
        /\ (InWinsign(p) /\ fs'[args[p].infile] # fs[args[p].infile]) =>
               /\ pc[p] = "attach"
               /\ args[p].outfile = args[p].infile
        /\ pc[p] = "sign_file" =>
               \A path \in AllPaths : fs'[path] # fs[path] => IsTmpPath(path)

\* C15: when main is called without an outfile argument, the output path is
\* the input path; in every run the input path is changed by no operation
\* other than the final attach-signature, which runs only after the
\* bootstrap and the re-sign stage have succeeded, and the dummy-signed copy
\* is written in the temporary directory.
C15_InPlaceOnlyByAttach == []C15_OutputIsInput /\ [][C15_OnlyAttachWrites]_vars

\* an in-place run that succeeded: the input file now carries the signature
C15_Witness ==
    \E p \in Procs :
        /\ mainst[p].cmdline.outfile = None
        /\ mainst[p].cmdline.infile = InPath(p)
        /\ Exited(p) /\ mainst[p].exit = "0"
        /\ Entered(p, "ATTACHED")
        /\ fs[InPath(p)] # fs0[InPath(p)]
        /\ fs[InPath(p)].kind = "exe"

====
